---- MODULE Spec2Model ----
(***************************************************************************)
(* Connect-Four bitboard engine (Connect4), its gym wrapper (Connect4Env)  *)
(* and the callers that drive them, modelled from                          *)
(* src/src/envs/connect4_env.py.                                           *)
(*                                                                         *)
(* Python lists are mutable objects reached through references, so the     *)
(* model keeps them in a heap: an engine object is a record of list        *)
(* addresses plus its `player` field, and `heap` maps an address to the    *)
(* list's contents.  Python integers are unbounded; a bit-board is a       *)
(* natural number and the bitwise operators are computed on it.            *)
(* Rewards are floats in the source; the model counts them in halves       *)
(* (1.0 is 2, 0.5 is 1).                                                   *)
(*                                                                         *)
(* The tree search that plays on clones of the engine (mcts and Node,      *)
(* src/src/policies/mcts_policy.py) is modelled step by step on the same   *)
(* heap.  The Elo rating table (EloRater, src/src/utils.py) is modelled    *)
(* beside the engine, with ratings kept as exact fractions, and so is the  *)
(* Exp3 bandit that src/bandit_trainer.py creates as a single actor.       *)
(***************************************************************************)
EXTENDS Integers, Sequences, FiniteSets, TLC

VARIABLES
    env_config,  \* the configuration dict shared by the engine and its clones
    heap,        \* address -> contents of a list object
    game,        \* the engine held by the caller (Connect4Env.game)
    cln,         \* the engine returned by the latest game.clone(), or NoObj
    boards,      \* Connect4Env.boards
    nclone,      \* moves applied since the latest clone()
    last,        \* the latest call and the exception it raised
    elo,         \* the EloRater object: ratings, k, start_value
    mcts,        \* a call of mcts: its locals, its tree and where it stands
    bandit       \* the Exp3Bandit actor, its mailbox and its callers

\* what the engine's callers leave alone
beside == <<elo, mcts, bandit>>

vars ==
    <<env_config, heap, game, cln, boards, nclone, last, elo, mcts, bandit>>

(***************************************************************************)
(* Bounds of the model.                                                    *)
(***************************************************************************)
\* largest board_height and board_width
MaxSide == 3
\* cells of the largest board (board_height * board_width) a single engine
\* is played on
MaxCells == 9
\* cells of the largest board where a clone or the gym wrapper sits beside
\* the engine
MaxCellsAux == 6
MaxWinLength == 3
\* a caller that ignores get_moves: stones it may drop beyond a full board
MaxOverfill == 1
\* moves applied after a clone was taken, to the original and the clone together
MaxCloneMoves == 1
\* agents known to the callers of the rating table
MaxAgents == 3
\* calls of EloRater.rate in one run
MaxRates == 2
\* cells of the largest board a search is run on
MaxCellsMcts == 4
\* arms of the bandit, runners that call it, and calls they make in all
MaxArms == 2
MaxRunners == 2
MaxCalls == 5
\* cells of the largest board two seeded searches are run on
MaxCellsSeeded == 2
\* largest max_rollouts a search is called with
MaxRollouts == 3
\* clock ticks that pass during one rollout
MaxTick == 2

(***************************************************************************)
(* Program constants, connect4_env.py:10-16.  The rewards are counted in   *)
(* halves: REWARD_WIN 1.0 is 2, REWARD_DRAW 0.5 is 1.                      *)
(***************************************************************************)
BOARD_HEIGHT == 6
BOARD_WIDTH == 7
WIN_LENGTH == 4
REWARD_WIN == 2
REWARD_LOSE == 0
REWARD_DRAW == 1
REWARD_STEP == 0
\* defaults of EloRater.__init__, utils.py:83
K_FACTOR == 32
START_VALUE == 1200

(***************************************************************************)
(* Bitwise operators on Python's unbounded non-negative integers.          *)
(***************************************************************************)
RECURSIVE Pow2(_)
Pow2(n) == IF n = 0 THEN 1 ELSE 2 * Pow2(n - 1)

\* a >> k
Shr(a, k) == a \div Pow2(k)

\* 1 << k
Shl1(k) == Pow2(k)

RECURSIVE BitAnd(_, _)
BitAnd(a, b) ==
    IF a = 0 \/ b = 0 THEN 0
    ELSE ((a % 2) * (b % 2)) + 2 * BitAnd(a \div 2, b \div 2)

RECURSIVE BitXor(_, _)
BitXor(a, b) ==
    IF a = 0 THEN b
    ELSE IF b = 0 THEN a
    ELSE ((a + b) % 2) + 2 * BitXor(a \div 2, b \div 2)

\* bit i of a
Bit(a, i) == Shr(a, i) % 2

\* player ^ 1 on a player in {0, 1}
Flip(p) == 1 - p

(***************************************************************************)
(* Connect4.__init__                                                       *)
(***************************************************************************)
\* the default configuration, `Connect4()` with env_config None
DefaultConfig ==
    [board_height |-> BOARD_HEIGHT, board_width |-> BOARD_WIDTH,
     win_length |-> WIN_LENGTH, reward_win |-> REWARD_WIN,
     reward_draw |-> REWARD_DRAW, reward_lose |-> REWARD_LOSE,
     reward_step |-> REWARD_STEP]

\* dirs computed as if the columns had no guard row
InitDirs_NoGuard(height) == <<1, height, height - 1, height + 1>>

\* self.dirs
InitDirs(height) == <<1, height + 1, (height + 1) - 1, (height + 1) + 1>>

\* heights that pack the columns without a guard row between them
InitHeights_NoGuard(height, width) == [i \in 1..width |-> height * (i - 1)]

\* self.heights
InitHeights(height, width) == [i \in 1..width |-> (height + 1) * (i - 1)]

\* self.lowest_row
InitLowestRow(width) == [i \in 1..width |-> 0]

\* self.top_row
InitTopRow(height, width) == [x \in 1..width |-> (x * (height + 1)) - 1]

\* the object built at address a: its fields are fresh lists at a .. a+4
Connect4Obj(a) ==
    [bit_board |-> a, dirs |-> a + 1, heights |-> a + 2,
     lowest_row |-> a + 3, top_row |-> a + 4, player |-> 1]

\* the lists a constructor run with configuration cfg allocates at a .. a+4
Connect4Lists(cfg, a) ==
    (a :> <<0, 0>>)
    @@ ((a + 1) :> InitDirs(cfg.board_height))
    @@ ((a + 2) :> InitHeights(cfg.board_height, cfg.board_width))
    @@ ((a + 3) :> InitLowestRow(cfg.board_width))
    @@ ((a + 4) :> InitTopRow(cfg.board_height, cfg.board_width))

\* addresses of the engine held by the caller and of its clone
GameAddr == 1
CloneAddr == 6

NoObj == [bit_board |-> 0, dirs |-> 0, heights |-> 0, lowest_row |-> 0,
          top_row |-> 0, player |-> 0]

(***************************************************************************)
(* Queries of Connect4; h is the heap, cfg the object's env_config, e the  *)
(* object.  Python indexes from 0, TLA+ sequences from 1.                  *)
(***************************************************************************)
\* the inner loop of is_winner: bb &= bit_board[player] >> (i * d), i = 1 .. n-1
RECURSIVE RunMask(_, _, _, _)
RunMask(bb, board, d, i) ==
    IF i = 0 THEN bb
    ELSE BitAnd(RunMask(bb, board, d, i - 1), Shr(board, i * d))

is_winner(h, cfg, e, player) ==
    \E k \in 1..Len(h[e.dirs]) :
        RunMask(h[e.bit_board][player + 1], h[e.bit_board][player + 1],
                h[e.dirs][k], cfg.win_length - 1) # 0

\* get_moves that keeps offering columns after a win
get_moves_IgnoresWin(h, cfg, e) ==
    SelectSeq([i \in 1..cfg.board_width |-> i - 1],
              LAMBDA c : h[e.lowest_row][c + 1] < cfg.board_height)

\* get_moves that compares with <= and so offers a full column
get_moves_OffByOne(h, cfg, e) ==
    IF is_winner(h, cfg, e, e.player) \/ is_winner(h, cfg, e, Flip(e.player))
    THEN <<>>
    ELSE SelectSeq([i \in 1..cfg.board_width |-> i - 1],
                   LAMBDA c : h[e.lowest_row][c + 1] <= cfg.board_height)

get_moves(h, cfg, e) ==
    IF is_winner(h, cfg, e, e.player) \/ is_winner(h, cfg, e, Flip(e.player))
    THEN <<>>
    ELSE SelectSeq([i \in 1..cfg.board_width |-> i - 1],
                   LAMBDA c : h[e.lowest_row][c + 1] < cfg.board_height)

is_draw(h, cfg, e) ==
    /\ get_moves(h, cfg, e) = <<>>
    /\ ~is_winner(h, cfg, e, e.player)
    /\ ~is_winner(h, cfg, e, Flip(e.player))

is_game_over(h, cfg, e) ==
    \/ is_winner(h, cfg, e, e.player)
    \/ is_winner(h, cfg, e, Flip(e.player))
    \/ get_moves(h, cfg, e) = <<>>

\* get_reward without the draw branch
get_reward_NoDraw(h, cfg, e, player) ==
    IF is_winner(h, cfg, e, player) THEN cfg.reward_win
    ELSE IF is_winner(h, cfg, e, Flip(player)) THEN cfg.reward_lose
    ELSE cfg.reward_step

\* a score in which a loss costs what a win pays
get_reward_ZeroSum(h, cfg, e, player) ==
    IF is_winner(h, cfg, e, player) THEN cfg.reward_win
    ELSE IF is_winner(h, cfg, e, Flip(player)) THEN 0 - cfg.reward_win
    ELSE IF is_draw(h, cfg, e) THEN cfg.reward_draw
    ELSE cfg.reward_step

get_reward(h, cfg, e, player) ==
    IF is_winner(h, cfg, e, player) THEN cfg.reward_win
    ELSE IF is_winner(h, cfg, e, Flip(player)) THEN cfg.reward_lose
    ELSE IF is_draw(h, cfg, e) THEN cfg.reward_draw
    ELSE cfg.reward_step

get_action_mask(h, cfg, e) ==
    [i \in 1..cfg.board_width |->
        IF h[e.lowest_row][i] < cfg.board_height THEN 1 ELSE 0]

\* is_valid_move that compares with the bit above the guard row
is_valid_move_AboveGuard(h, e, column) ==
    h[e.heights][column + 1] # h[e.top_row][column + 1] + 1

is_valid_move(h, e, column) ==
    h[e.heights][column + 1] # h[e.top_row][column + 1]

(***************************************************************************)
(* Connect4.move: the heap after self.move(column), and the object.        *)
(***************************************************************************)
\* move that puts the stone into the mask of `player` before the flip
move_heap_OwnMask(h, e, column) ==
    LET m2 == Shl1(h[e.heights][column + 1])
    IN  [h EXCEPT ![e.heights][column + 1] = @ + 1,
                  ![e.bit_board][e.player + 1] = BitXor(@, m2),
                  ![e.lowest_row][column + 1] = @ + 1]

\* move that forgets to advance heights[column]
move_heap_NoHeight(h, e, column) ==
    LET m2 == Shl1(h[e.heights][column + 1])
        p  == Flip(e.player)
    IN  [h EXCEPT ![e.bit_board][p + 1] = BitXor(@, m2),
                  ![e.lowest_row][column + 1] = @ + 1]

\* move that forgets to count the stone in lowest_row[column]
move_heap_NoCount(h, e, column) ==
    LET m2 == Shl1(h[e.heights][column + 1])
        p  == Flip(e.player)
    IN  [h EXCEPT ![e.heights][column + 1] = @ + 1,
                  ![e.bit_board][p + 1] = BitXor(@, m2)]

move_heap(h, e, column) ==
    LET m2 == Shl1(h[e.heights][column + 1])
        p  == Flip(e.player)
    IN  [h EXCEPT ![e.heights][column + 1] = @ + 1,
                  ![e.bit_board][p + 1] = BitXor(@, m2),
                  ![e.lowest_row][column + 1] = @ + 1]

move_obj(e) == [e EXCEPT !.player = Flip(@)]

(***************************************************************************)
(* Connect4.clone: a default-configured object is constructed at address   *)
(* a, then env_config is shared and bit_board, heights, lowest_row and     *)
(* top_row are replaced by deep copies; dirs and player are what the       *)
(* constructor and the last assignment leave.                              *)
(***************************************************************************)
clone_heap(h, e, a) ==
    (a :> h[e.bit_board])
    @@ ((a + 1) :> Connect4Lists(DefaultConfig, a)[a + 1])
    @@ ((a + 2) :> h[e.heights])
    @@ ((a + 3) :> h[e.lowest_row])
    @@ ((a + 4) :> h[e.top_row])
    @@ h

\* clone that shares the bit_board list instead of copying it
clone_obj_Shallow(e, a) ==
    [Connect4Obj(a) EXCEPT !.bit_board = e.bit_board, !.player = e.player]

\* clone that shares the heights and lowest_row lists instead of copying them
clone_obj_SharedHeights(e, a) ==
    [Connect4Obj(a) EXCEPT !.heights = e.heights,
                           !.lowest_row = e.lowest_row, !.player = e.player]

clone_obj(e, a) == [Connect4Obj(a) EXCEPT !.player = e.player]

(***************************************************************************)
(* Initial state: Connect4Env(env_config) has just been constructed.       *)
(***************************************************************************)
\* reward settings an engine is constructed with: the defaults, and
\* win 2.0, draw 0.5, lose -1.0, step 0.0 (four different values)
RewardConfigs ==
    { [reward_win |-> REWARD_WIN, reward_draw |-> REWARD_DRAW,
       reward_lose |-> REWARD_LOSE, reward_step |-> REWARD_STEP],
      [reward_win |-> 4, reward_draw |-> 1, reward_lose |-> -2,
       reward_step |-> 0] }

\* board shapes (height, width) of at most n cells
Shapes(n) == {s \in (1..MaxSide) \X (1..MaxSide) : s[1] * s[2] <= n}

Configs(n) ==
    { [board_height |-> s[1], board_width |-> s[2], win_length |-> wl,
       reward_win |-> r.reward_win, reward_draw |-> r.reward_draw,
       reward_lose |-> r.reward_lose, reward_step |-> r.reward_step] :
      s \in Shapes(n), wl \in 1..MaxWinLength, r \in RewardConfigs }

\* no bandit has been created
NoBandit ==
    [K |-> 0, weights |-> <<>>, mailbox |-> <<>>, running |-> <<>>,
     log |-> <<>>, runner |-> <<>>, calls |-> 0]

\* no rating table has been constructed
NoElo == [ratings |-> <<>>, k |-> 0, start_value |-> <<0, 1>>, rates |-> 0]

Call(op, obj, column, exc) ==
    [op |-> op, obj |-> obj, column |-> column, exc |-> exc]

\* no search has been called; the random generator is seeded or left alone
NoSearch(seeded) ==
    [pc |-> "idle", seeded |-> seeded, tape |-> <<>>, pos |-> 0,
     clock |-> 0, returned |-> <<>>, nodes |-> <<>>, node |-> 0,
     state |-> NoObj, i |-> 0, max_rollouts |-> 0, rollouts_timeout |-> 0,
     start |-> 0]

\* Connect4Env(cfg) has just been constructed, for a cfg of at most n cells
InitEngine(n) ==
    /\ env_config \in Configs(n)
    /\ heap = Connect4Lists(env_config, GameAddr)
    /\ game = Connect4Obj(GameAddr)
    /\ cln = NoObj
    /\ boards = <<>>
    /\ nclone = 0
    /\ last = Call("init", "game", -1, "none")
    /\ elo = NoElo
    /\ bandit = NoBandit

InitWith(n) == InitEngine(n) /\ mcts = NoSearch(FALSE)

Init == InitWith(MaxCells)

InitAux == InitWith(MaxCellsAux)

Columns == 0..(env_config.board_width - 1)

\* the elements of a list
Elems(s) == {s[i] : i \in 1..Len(s)}

\* number of calls of move made on an engine: every call adds one to lowest_row
RECURSIVE SumSeq(_)
SumSeq(s) == IF s = <<>> THEN 0 ELSE Head(s) + SumSeq(Tail(s))

(***************************************************************************)
(* A caller that plays by the rules: the column comes from get_moves(), as *)
(* in the rollout loop of mcts (mcts_policy.py:107-108).                   *)
(***************************************************************************)
Play(c) ==
    /\ c \in Elems(get_moves(heap, env_config, game))
    /\ cln # NoObj => nclone < MaxCloneMoves
    /\ heap' = move_heap(heap, game, c)
    /\ game' = move_obj(game)
    /\ nclone' = IF cln # NoObj THEN nclone + 1 ELSE 0
    /\ last' = Call("move", "game", c, "none")
    /\ UNCHANGED <<env_config, cln, boards>>
    /\ UNCHANGED beside

Next == \E c \in Columns : Play(c)

Spec == Init /\ [][Next]_vars

(***************************************************************************)
(* The caller takes clones of the engine and plays on both.                *)
(***************************************************************************)
Clone ==
    /\ heap' = clone_heap(heap, game, CloneAddr)
    /\ cln' = clone_obj(game, CloneAddr)
    /\ nclone' = 0
    /\ last' = Call("clone", "game", -1, "none")
    /\ UNCHANGED <<env_config, game, boards>>
    /\ UNCHANGED beside

ClonePlay(c) ==
    /\ cln # NoObj
    /\ c \in Elems(get_moves(heap, env_config, cln))
    /\ nclone < MaxCloneMoves
    /\ heap' = move_heap(heap, cln, c)
    /\ cln' = move_obj(cln)
    /\ nclone' = nclone + 1
    /\ last' = Call("move", "cln", c, "none")
    /\ UNCHANGED <<env_config, game, boards>>
    /\ UNCHANGED beside

NextClone ==
    \/ \E c \in Columns : Play(c)
    \/ Clone
    \/ \E c \in Columns : ClonePlay(c)

SpecClone == InitAux /\ [][NextClone]_vars

(***************************************************************************)
(* A caller that hands any column to the engine.  Connect4.move has no     *)
(* guard of its own; Connect4Env.step tests is_valid_move first.  The      *)
(* engine is driven directly while no observation boards are kept (a       *)
(* stand-alone Connect4, as mcts uses it), through step afterwards.        *)
(***************************************************************************)
MovesMade(h, e) == SumSeq(h[e.lowest_row])

RawBudget ==
    MovesMade(heap, game)
        < env_config.board_height * env_config.board_width + MaxOverfill

Move(c) ==
    /\ boards = <<>>
    /\ RawBudget
    /\ heap' = move_heap(heap, game, c)
    /\ game' = move_obj(game)
    /\ last' = Call("move", "game", c, "none")
    /\ UNCHANGED <<env_config, cln, boards, nclone>>
    /\ UNCHANGED beside

\* np.zeros((board_height, board_width)) for each of the two players
ZeroBoards ==
    [i \in 1..2 |->
        [r \in 1..env_config.board_height |->
            [c \in 1..env_config.board_width |-> 0]]]

\* Connect4Env.reset
Reset ==
    /\ game' = Connect4Obj(GameAddr)
    /\ heap' = Connect4Lists(env_config, GameAddr) @@ heap
    /\ boards' = ZeroBoards
    /\ last' = Call("reset", "game", -1, "none")
    /\ UNCHANGED <<env_config, cln, nclone>>
    /\ UNCHANGED beside

\* Connect4Env.step with action_dict[player] = column
Step(column) ==
    /\ RawBudget
    /\ IF ~is_valid_move(heap, game, column)
       THEN /\ last' = Call("step", "game", column, "ValueError")
            /\ UNCHANGED <<heap, game, boards>>
       ELSE LET h2  == move_heap(heap, game, column)
                g2  == move_obj(game)
                row == h2[g2.lowest_row][column + 1] - 1
            IN  /\ heap' = h2
                /\ game' = g2
                /\ IF boards = <<>> \/ row >= env_config.board_height
                   THEN \* boards[0] of an empty list, or a row outside the array
                        /\ boards' = boards
                        /\ last' = Call("step", "game", column, "IndexError")
                   ELSE /\ boards' =
                            [boards EXCEPT
                               ![1][row + 1][column + 1] = g2.player + 1,
                               ![2][row + 1][column + 1] = Flip(g2.player) + 1]
                        /\ last' = Call("step", "game", column, "none")
    /\ UNCHANGED <<env_config, cln, nclone>>
    /\ UNCHANGED beside

NextRaw ==
    \/ \E c \in Columns : Move(c)
    \/ \E c \in Columns : Step(c)
    \/ Reset

SpecRaw == InitAux /\ [][NextRaw]_vars

(***************************************************************************)
(* A caller that drives the game through the gym wrapper only: reset and   *)
(* step with any column as the action of the player to move.               *)
(***************************************************************************)
NextEnv ==
    \/ \E c \in Columns : Step(c)
    \/ Reset

SpecEnv == InitAux /\ [][NextEnv]_vars

(***************************************************************************)
(* Exact fractions <<numerator, denominator>> in lowest terms with a       *)
(* positive denominator, for the float arithmetic of EloRater.             *)
(***************************************************************************)
Abs(x) == IF x < 0 THEN -x ELSE x

RECURSIVE Gcd(_, _)
Gcd(a, b) == IF b = 0 THEN a ELSE Gcd(b, a % b)

Frac(n, d) ==
    LET g == Gcd(Abs(n), Abs(d))
        s == IF d < 0 THEN -1 ELSE 1
    IN  <<(s * n) \div g, (s * d) \div g>>

FInt(n) == <<n, 1>>
FAdd(x, y) == Frac(x[1] * y[2] + y[1] * x[2], x[2] * y[2])
FSub(x, y) == Frac(x[1] * y[2] - y[1] * x[2], x[2] * y[2])
FMul(x, y) == Frac(x[1] * y[1], x[2] * y[2])
FInv(x) == Frac(x[2], x[1])

RECURSIVE Pow10(_)
Pow10(n) == IF n = 0 THEN 1 ELSE 10 * Pow10(n - 1)

\* 10 ** x for a fraction x that is a whole number
TenTo(x) == IF x[1] >= 0 THEN <<Pow10(x[1]), 1>> ELSE <<1, Pow10(-x[1])>>

\* 10 ** ((rating1 - rating2) / 400) is a fraction when the exponent is a
\* whole number; rate is modelled for the pairs of ratings where it is
WholeExponent(rating1, rating2) ==
    FMul(FSub(rating1, rating2), <<1, 400>>)[2] = 1

(***************************************************************************)
(* EloRater, utils.py:82-123.                                              *)
(***************************************************************************)
AgentName == <<"p1", "p2", "p3", "p4", "p5">>
Agents == {AgentName[i] : i \in 1..MaxAgents}

\* what a caller may pass as `winner`: an agent, 'draw', or nothing
Winners == Agents \cup {"draw", "None"}

\* EloRater.win_probability
win_probability(rating1, rating2) ==
    FInv(FAdd(FInt(1), TenTo(FMul(FSub(rating1, rating2), <<1, 400>>))))

\* rate that takes B's win probability with A's arguments
rate_SameProbability(ratings, k, player_a, player_b, winner) ==
    LET rating_a   == ratings[player_a]
        rating_b   == ratings[player_b]
        win_prob_a == win_probability(rating_b, rating_a)
        win_prob_b == win_probability(rating_b, rating_a)
        known      == winner \in {player_a, player_b, "draw"}
        score_a    == IF winner = player_a THEN <<1, 1>>
                      ELSE IF winner = player_b THEN <<0, 1>> ELSE <<1, 2>>
        score_b    == IF winner = player_a THEN <<0, 1>>
                      ELSE IF winner = player_b THEN <<1, 1>> ELSE <<1, 2>>
        r1 == [ratings EXCEPT ![player_a] =
                  FAdd(@, FMul(FInt(k), FSub(score_a, win_prob_a)))]
        r2 == [r1 EXCEPT ![player_b] =
                  FAdd(@, FMul(FInt(k), FSub(score_b, win_prob_b)))]
    IN  IF known THEN [exc |-> "none", ratings |-> r2]
        ELSE [exc |-> "ValueError", ratings |-> ratings]

\* rate that scores an unknown winner as a loss of both instead of raising
rate_UnknownIsLoss(ratings, k, player_a, player_b, winner) ==
    LET rating_a   == ratings[player_a]
        rating_b   == ratings[player_b]
        win_prob_a == win_probability(rating_b, rating_a)
        win_prob_b == win_probability(rating_a, rating_b)
        score_a    == IF winner = player_a THEN <<1, 1>>
                      ELSE IF winner = player_b THEN <<0, 1>>
                      ELSE IF winner = "draw" THEN <<1, 2>> ELSE <<0, 1>>
        score_b    == IF winner = player_a THEN <<0, 1>>
                      ELSE IF winner = player_b THEN <<1, 1>>
                      ELSE IF winner = "draw" THEN <<1, 2>> ELSE <<0, 1>>
        r1 == [ratings EXCEPT ![player_a] =
                  FAdd(@, FMul(FInt(k), FSub(score_a, win_prob_a)))]
        r2 == [r1 EXCEPT ![player_b] =
                  FAdd(@, FMul(FInt(k), FSub(score_b, win_prob_b)))]
    IN  [exc |-> "none", ratings |-> r2]

\* EloRater.rate for two agents of the table: the exception it raises and
\* the ratings it leaves
rate(ratings, k, player_a, player_b, winner) ==
    LET rating_a   == ratings[player_a]
        rating_b   == ratings[player_b]
        win_prob_a == win_probability(rating_b, rating_a)
        win_prob_b == win_probability(rating_a, rating_b)
        known      == winner \in {player_a, player_b, "draw"}
        score_a    == IF winner = player_a THEN <<1, 1>>
                      ELSE IF winner = player_b THEN <<0, 1>> ELSE <<1, 2>>
        score_b    == IF winner = player_a THEN <<0, 1>>
                      ELSE IF winner = player_b THEN <<1, 1>> ELSE <<1, 2>>
        r1 == [ratings EXCEPT ![player_a] =
                  FAdd(@, FMul(FInt(k), FSub(score_a, win_prob_a)))]
        r2 == [r1 EXCEPT ![player_b] =
                  FAdd(@, FMul(FInt(k), FSub(score_b, win_prob_b)))]
    IN  IF known THEN [exc |-> "none", ratings |-> r2]
        ELSE [exc |-> "ValueError", ratings |-> ratings]

EloCall(op, player_a, player_b, winner, exc) ==
    [op |-> op, obj |-> "elo", column |-> -1, exc |-> exc,
     player_a |-> player_a, player_b |-> player_b, winner |-> winner]

\* the engine is left as constructed while the rating table is used
EngineIdle ==
    /\ env_config = DefaultConfig
    /\ heap = Connect4Lists(DefaultConfig, GameAddr)
    /\ game = Connect4Obj(GameAddr)
    /\ cln = NoObj
    /\ boards = <<>>
    /\ nclone = 0
    /\ mcts = NoSearch(FALSE)

\* EloRater(agent_ids, k_factor, start_value) has just been constructed
InitElo ==
    /\ EngineIdle
    /\ bandit = NoBandit
    /\ \E agent_ids \in SUBSET Agents, k_factor \in {K_FACTOR, 800} :
          elo = [ratings |-> [a_id \in agent_ids |-> FInt(START_VALUE)],
                 k |-> k_factor, start_value |-> FInt(START_VALUE),
                 rates |-> 0]
    /\ last = EloCall("init", "None", "None", "None", "none")

\* EloRater.add_agent
AddAgent(agent_id) ==
    /\ elo' = [elo EXCEPT !.ratings =
                 [a_id \in DOMAIN elo.ratings \cup {agent_id} |->
                     IF a_id = agent_id THEN elo.start_value
                     ELSE elo.ratings[a_id]]]
    /\ last' = EloCall("add_agent", agent_id, "None", "None", "none")
    /\ UNCHANGED <<env_config, heap, game, cln, boards, nclone, mcts, bandit>>

\* EloRater.rate
Rate(player_a, player_b, winner) ==
    /\ elo.rates < MaxRates
    /\ IF {player_a, player_b} \subseteq DOMAIN elo.ratings
       THEN /\ WholeExponent(elo.ratings[player_a], elo.ratings[player_b])
            /\ LET res == rate(elo.ratings, elo.k, player_a, player_b, winner)
               IN  /\ elo' = [elo EXCEPT !.ratings = res.ratings,
                                         !.rates = @ + 1]
                   /\ last' = EloCall("rate", player_a, player_b, winner,
                                      res.exc)
       ELSE \* self.ratings[player_a] or self.ratings[player_b] of a missing key
            /\ elo' = [elo EXCEPT !.rates = @ + 1]
            /\ last' = EloCall("rate", player_a, player_b, winner, "KeyError")
    /\ UNCHANGED <<env_config, heap, game, cln, boards, nclone, mcts, bandit>>

NextElo ==
    \/ \E a \in Agents : AddAgent(a)
    \/ \E a, b \in Agents, w \in Winners : Rate(a, b, w)

SpecElo == InitElo /\ [][NextElo]_vars

(***************************************************************************)
(* Node, mcts_policy.py:128-156.  The tree is a list of nodes; a node is   *)
(* referred to by its position in the list, the root is node 1 and         *)
(* parent None is 0.  A node's own clone of the state is referenced by     *)
(* nothing else, so it is kept by value.  wins counts rewards in halves.   *)
(***************************************************************************)
\* addresses of mcts's working state and of the clone a node is given
WorkAddr == 11
NodeAddr == 16

Root == 1
NoNode == 0
NoMove == -1

\* state.clone() as stored by Node.__init__
node_state(h, e) ==
    LET c == clone_heap(h, e, NodeAddr)
        o == clone_obj(e, NodeAddr)
    IN  [bit_board |-> c[o.bit_board], dirs |-> c[o.dirs],
         heights |-> c[o.heights], lowest_row |-> c[o.lowest_row],
         top_row |-> c[o.top_row], player |-> o.player]

\* Node.__init__ that takes every column for an untried move
Node_EveryColumn(move, parent, h, cfg, state) ==
    [state |-> node_state(h, state), parent |-> parent, move |-> move,
     untried_moves |-> [j \in 1..cfg.board_width |-> j - 1],
     children |-> <<>>, wins |-> 0, visits |-> 0, player |-> state.player]

\* Node.__init__
Node(move, parent, h, cfg, state) ==
    [state |-> node_state(h, state), parent |-> parent, move |-> move,
     untried_moves |-> get_moves(h, cfg, state), children |-> <<>>,
     wins |-> 0, visits |-> 0, player |-> state.player]

\* list.remove: the list without the first occurrence of x
RECURSIVE Remove(_, _)
Remove(s, x) ==
    IF s = <<>> THEN <<>>
    ELSE IF Head(s) = x THEN Tail(s) ELSE <<Head(s)>> \o Remove(Tail(s), x)

FLess(x, y) == x[1] * y[2] < y[1] * x[2]

\* sorted(ids, key=...): Python's sort is stable, equal keys keep their order
InsertStable(sorted, x, key) ==
    LET pos == Cardinality({j \in 1..Len(sorted) :
                               ~FLess(key[x], key[sorted[j]])})
    IN  SubSeq(sorted, 1, pos) \o <<x>> \o SubSeq(sorted, pos + 1, Len(sorted))

RECURSIVE Sorted(_, _)
Sorted(ids, key) ==
    IF ids = <<>> THEN <<>>
    ELSE InsertStable(Sorted(SubSeq(ids, 1, Len(ids) - 1), key),
                      ids[Len(ids)], key)

\* s[::-1]
Reversed(s) == [j \in 1..Len(s) |-> s[Len(s) + 1 - j]]

\* uct is a float; the model computes it in units of 1/Scale.  LogScaled[n]
\* is np.log(n) in these units, ISqrt the integer square root.
Scale == 10000
LogScaled == <<0, 6931, 10986, 13863, 16094, 17918, 19459, 20794>>

RECURSIVE SqrtBetween(_, _, _)
SqrtBetween(n, lo, hi) ==
    IF lo = hi THEN lo
    ELSE LET mid == (lo + hi + 1) \div 2
         IN  IF mid * mid <= n THEN SqrtBetween(n, mid, hi)
             ELSE SqrtBetween(n, lo, mid - 1)

ISqrt(n) == SqrtBetween(n, 0, 46340)

\* uct of Node.selection for child x of a node visited `visits` times
uct(visits, x) ==
    <<(x.wins * Scale) \div (2 * x.visits)
         + ISqrt((2 * LogScaled[visits] * Scale) \div x.visits), 1>>

\* a division by x.visits of a child that was never visited
ZeroVisits(nodes, n) ==
    \E j \in 1..Len(nodes[n].children) : nodes[nodes[n].children[j]].visits = 0

\* Node.selection: sorted(self.children, key=uct)[-1]
selection(nodes, n) ==
    LET key == [c \in Elems(nodes[n].children) |->
                   uct(nodes[n].visits, nodes[c])]
        s   == Sorted(nodes[n].children, key)
    IN  s[Len(s)]

\* an update that adds the result and does not count the visit
update_WinsOnly(x, result) == [x EXCEPT !.wins = @ + result]

\* Node.update
update(x, result) == [x EXCEPT !.wins = @ + result, !.visits = @ + 1]

\* score of mcts: x.wins / x.visits, as an exact fraction
score(x) == Frac(x.wins, 2 * x.visits)

\* the final choice that sorts in descending order instead of reversing
best_child_SortedDescending(nodes) ==
    LET key == [c \in Elems(nodes[Root].children) |->
                   FSub(FInt(0), score(nodes[c]))]
    IN  Sorted(nodes[Root].children, key)[1]

\* sorted(root.children, key=score)[::-1][0]
best_child(nodes) ==
    LET key == [c \in Elems(nodes[Root].children) |-> score(nodes[c])]
    IN  Reversed(Sorted(nodes[Root].children, key))[1]

(***************************************************************************)
(* mcts, mcts_policy.py:86-125, one action per phase of a rollout.         *)
(***************************************************************************)
\* default of the rollouts_timeout argument, in clock ticks
DEFAULT_ROLLOUTS_TIMEOUT == 1

\* random.choice that ignores the seed
Draw_Unseeded(list, v) == v \in Elems(list)

\* random.choice: any element of the list.  A generator that was seeded
\* yields the same numbers again after it is seeded alike: mcts.tape holds
\* the numbers drawn since the first seeding, mcts.pos how many of them the
\* generator has yielded since the latest one.
Draw(list, v) ==
    /\ v \in Elems(list)
    /\ (mcts.seeded /\ mcts.pos < Len(mcts.tape))
          => v = list[(mcts.tape[mcts.pos + 1] % Len(list)) + 1]

\* the position of v in a list without repetitions, counted from 0
IndexOf(list, v) == (CHOOSE j \in 1..Len(list) : list[j] = v) - 1

\* the generator after random.choice(list) has returned v
Drawn(list, v) ==
    IF mcts.seeded
    THEN [mcts EXCEPT !.pos = @ + 1,
                      !.tape = IF mcts.pos < Len(@) THEN @
                               ELSE Append(@, IndexOf(list, v))]
    ELSE mcts

Result(move, num_rollouts, exc) ==
    [move |-> move, num_rollouts |-> num_rollouts, exc |-> exc]

\* lines 87-89 for the caller's game as current_state
Begin(max_rollouts, pos) ==
    IF max_rollouts > 0
    THEN /\ mcts' = [pc |-> "round", seeded |-> mcts.seeded,
                     tape |-> mcts.tape, pos |-> pos, clock |-> mcts.clock,
                     returned |-> mcts.returned,
                     nodes |-> <<Node(NoMove, NoNode, heap, env_config, game)>>,
                     node |-> Root, state |-> NoObj, i |-> 0,
                     max_rollouts |-> max_rollouts,
                     rollouts_timeout |-> DEFAULT_ROLLOUTS_TIMEOUT,
                     start |-> mcts.clock]
         /\ last' = Call("mcts", "mcts", NoMove, "none")
    ELSE /\ mcts' = [mcts EXCEPT
                        !.pc = "done",
                        !.pos = pos,
                        !.returned = Append(@, Result(NoMove, 0,
                                                      "AssertionError"))]
         /\ last' = Call("mcts", "mcts", NoMove, "AssertionError")

MctsCall(max_rollouts) ==
    /\ mcts.pc = "idle"
    /\ mcts.returned = <<>>
    /\ Begin(max_rollouts, mcts.pos)
    /\ UNCHANGED <<env_config, heap, game, cln, boards, nclone, elo, bandit>>

\* the selection loop, lines 96-98, from node n with working state st
RECURSIVE Descend(_, _, _, _)
Descend(nodes, n, h, st) ==
    IF Len(nodes[n].untried_moves) = 0 /\ Len(nodes[n].children) # 0
    THEN IF ZeroVisits(nodes, n)
         THEN [exc |-> "ZeroDivisionError", node |-> n, heap |-> h,
               state |-> st]
         ELSE LET c == selection(nodes, n)
              IN  Descend(nodes, c, move_heap(h, st, nodes[c].move),
                          move_obj(st))
    ELSE [exc |-> "none", node |-> n, heap |-> h, state |-> st]

\* lines 91-98: a rollout starts from the root on a clone of current_state
Select ==
    /\ mcts.pc = "round"
    /\ LET d == Descend(mcts.nodes, Root,
                        clone_heap(heap, game, WorkAddr),
                        clone_obj(game, WorkAddr))
       IN  /\ heap' = d.heap
           /\ IF d.exc = "none"
              THEN mcts' = [mcts EXCEPT !.pc = "expand", !.node = d.node,
                                        !.state = d.state]
              ELSE mcts' = [mcts EXCEPT
                              !.pc = "done",
                              !.returned = Append(@, Result(NoMove, 0, d.exc))]
           /\ last' = Call("select", "mcts", mcts.nodes[d.node].move, d.exc)
    /\ UNCHANGED <<env_config, game, cln, boards, nclone, elo, bandit>>

\* lines 101-104 and Node.expand
Expand(move) ==
    /\ mcts.pc = "expand"
    /\ mcts.nodes[mcts.node].untried_moves # <<>>
    /\ Draw(mcts.nodes[mcts.node].untried_moves, move)
    /\ LET h2    == move_heap(heap, mcts.state, move)
           st2   == move_obj(mcts.state)
           child == Node(move, mcts.node, h2, env_config, st2)
           id    == Len(mcts.nodes) + 1
       IN  /\ heap' = h2
           /\ mcts' = [Drawn(mcts.nodes[mcts.node].untried_moves, move) EXCEPT
                 !.pc = "rollout",
                 !.state = st2,
                 !.node = id,
                 !.nodes = Append(
                     [@ EXCEPT ![mcts.node].untried_moves = Remove(@, move),
                               ![mcts.node].children = Append(@, id)],
                     child)]
    /\ last' = Call("expand", "mcts", move, "none")
    /\ UNCHANGED <<env_config, game, cln, boards, nclone, elo, bandit>>

\* line 101 on a node that has no untried move
NoExpand ==
    /\ mcts.pc = "expand"
    /\ mcts.nodes[mcts.node].untried_moves = <<>>
    /\ mcts' = [mcts EXCEPT !.pc = "rollout"]
    /\ last' = Call("expand", "mcts", NoMove, "none")
    /\ UNCHANGED <<env_config, heap, game, cln, boards, nclone, elo, bandit>>

\* lines 107-108, one turn of the loop
Rollout(move) ==
    /\ mcts.pc = "rollout"
    /\ get_moves(heap, env_config, mcts.state) # <<>>
    /\ Draw(get_moves(heap, env_config, mcts.state), move)
    /\ heap' = move_heap(heap, mcts.state, move)
    /\ mcts' = [Drawn(get_moves(heap, env_config, mcts.state), move) EXCEPT
                  !.state = move_obj(@)]
    /\ last' = Call("rollout", "mcts", move, "none")
    /\ UNCHANGED <<env_config, game, cln, boards, nclone, elo, bandit>>

\* node n and the nodes above it, up to the root
RECURSIVE Ancestors(_, _)
Ancestors(nodes, n) ==
    IF n = NoNode THEN {} ELSE {n} \cup Ancestors(nodes, nodes[n].parent)

\* a walk that takes the reward once, for the player of the node it starts
\* from, and updates every node with it
backpropagate_OneReward(nodes, n, h, cfg, st) ==
    LET result == get_reward(h, cfg, st, nodes[n].player)
    IN  [j \in 1..Len(nodes) |->
            IF j \in Ancestors(nodes, n) THEN update(nodes[j], result)
            ELSE nodes[j]]

\* lines 111-113: every node from n up to the root is updated with the
\* reward of the rollout's final state for that node's player
RECURSIVE backpropagate(_, _, _, _, _)
backpropagate(nodes, n, h, cfg, st) ==
    IF n = NoNode THEN nodes
    ELSE backpropagate(
             [nodes EXCEPT ![n] = update(@, get_reward(h, cfg, st, @.player))],
             nodes[n].parent, h, cfg, st)

Backpropagate ==
    /\ mcts.pc = "rollout"
    /\ get_moves(heap, env_config, mcts.state) = <<>>
    /\ mcts' = [mcts EXCEPT
                  !.pc = "clock",
                  !.node = NoNode,
                  !.nodes = backpropagate(@, mcts.node, heap, env_config,
                                          mcts.state)]
    /\ last' = Call("backpropagate", "mcts", NoMove, "none")
    /\ UNCHANGED <<env_config, heap, game, cln, boards, nclone, elo, bandit>>

\* a test that also stops when the duration has just reached the timeout
timed_out_Reached(duration, rollouts_timeout) == duration >= rollouts_timeout

\* line 116
timed_out(duration, rollouts_timeout) == duration > rollouts_timeout

\* lines 115-117 and the loop header, line 90: the clock has advanced by d
\* since it was last read
TimeCheck(d) ==
    /\ mcts.pc = "clock"
    /\ LET now      == mcts.clock + d
           duration == now - mcts.start
           break    == timed_out(duration, mcts.rollouts_timeout)
           more     == mcts.i + 1 < mcts.max_rollouts
       IN  mcts' = [mcts EXCEPT
                      !.clock = now,
                      !.pc = IF ~break /\ more THEN "round" ELSE "final",
                      !.i = IF ~break /\ more THEN @ + 1 ELSE @]
    /\ last' = Call("clock", "mcts", NoMove, "none")
    /\ UNCHANGED <<env_config, heap, game, cln, boards, nclone, elo, bandit>>

\* lines 119-125
Return ==
    /\ mcts.pc = "final"
    /\ LET exc == IF ZeroVisits(mcts.nodes, Root) THEN "ZeroDivisionError"
                  ELSE IF mcts.nodes[Root].children = <<>> THEN "IndexError"
                  ELSE "none"
           res == IF exc = "none"
                  THEN Result(mcts.nodes[best_child(mcts.nodes)].move,
                              mcts.i + 1, "none")
                  ELSE Result(NoMove, 0, exc)
       IN  /\ mcts' = [mcts EXCEPT !.pc = "done",
                                   !.returned = Append(@, res)]
           /\ last' = Call("return", "mcts", res.move, exc)
    /\ UNCHANGED <<env_config, heap, game, cln, boards, nclone, elo, bandit>>

\* the caller's game before the search is called
PlayFirst(c) ==
    /\ mcts.pc = "idle"
    /\ Play(c)

NextMcts ==
    \/ \E c \in Columns : PlayFirst(c)
    \/ \E n \in 0..MaxRollouts : MctsCall(n)
    \/ Select
    \/ \E c \in Columns : Expand(c)
    \/ NoExpand
    \/ \E c \in Columns : Rollout(c)
    \/ Backpropagate
    \/ \E d \in 0..MaxTick : TimeCheck(d)
    \/ Return

InitMcts == InitWith(MaxCellsMcts)

SpecMcts == InitMcts /\ [][NextMcts]_vars

(***************************************************************************)
(* The random generator is seeded before the search is called, and it is   *)
(* seeded again with the same seed before a second call with the same      *)
(* arguments on the same game.  The clock is not in the caller's hands.    *)
(* The seed is any: the first run draws freely.                            *)
(***************************************************************************)
InitSeeded ==
    /\ InitEngine(MaxCellsSeeded)
    /\ mcts = NoSearch(TRUE)

Again ==
    /\ mcts.pc = "done"
    /\ mcts.seeded
    /\ Len(mcts.returned) = 1
    /\ Begin(mcts.max_rollouts, 0)
    /\ UNCHANGED <<env_config, heap, game, cln, boards, nclone, elo, bandit>>

NextSeeded ==
    \/ NextMcts
    \/ Again

SpecSeeded == InitSeeded /\ [][NextSeeded]_vars

(***************************************************************************)
(* The Exp3 bandit shared by the episode runners.  bandit_trainer.py:26-27 *)
(* wraps Exp3Bandit with ray.remote and creates one actor: a call of a     *)
(* method is a message put into the actor's mailbox, and the actor takes   *)
(* the messages one at a time and in order.  A weight is a product of      *)
(* factors exp(gamma * reward / (K * p_i)); it is kept as the list of its  *)
(* factors, each one the reward and the weights p_i was computed from, and *)
(* the weight 1.0 is the empty list.                                       *)
(***************************************************************************)
Arms == 1..bandit.K
Runners == 1..MaxRunners
Rewards == {0, 1}

\* an actor that runs its methods on two threads
may_start_Threaded(running) == Len(running) < 2

\* the actor starts a method when it is running none
may_start(running) == Len(running) < 1

\* w_i * exp(gamma * reward / (K * p_i)) with p_i computed from `seen`;
\* exp(0) is 1
times_factor(w, seen, reward) ==
    IF reward = 0 THEN w ELSE Append(w, [reward |-> reward, seen |-> seen])

\* Exp3Bandit(num_arms, gamma) behind ray.remote, and runners that have
\* not called it
InitBandit ==
    /\ EngineIdle
    /\ elo = NoElo
    /\ last = Call("init", "bandit", -1, "none")
    /\ \E num_arms \in 1..MaxArms :
          bandit = [K |-> num_arms,
                    weights |-> [i \in 1..num_arms |-> <<>>],
                    mailbox |-> <<>>, running |-> <<>>, log |-> <<>>,
                    runner |-> [r \in Runners |-> [pc |-> "start", arm |-> 0]],
                    calls |-> 0]

Message(op, runner, arm, reward) ==
    [op |-> op, runner |-> runner, arm |-> arm, reward |-> reward,
     pc |-> "read", seen |-> <<>>]

\* a runner calls select_arm.remote() at the start of an episode
CallSelect(r) ==
    /\ bandit.calls < MaxCalls
    /\ bandit.runner[r].pc = "start"
    /\ bandit' = [bandit EXCEPT
                    !.calls = @ + 1,
                    !.runner[r].pc = "drawing",
                    !.mailbox = Append(@, Message("select_arm", r, 0, 0))]
    /\ UNCHANGED <<env_config, heap, game, cln, boards, nclone, last, elo,
                   mcts>>

\* a runner calls observe.remote(arm, reward) at the end of its episode
CallObserve(r, reward) ==
    /\ bandit.calls < MaxCalls
    /\ bandit.runner[r].pc = "playing"
    /\ bandit' = [bandit EXCEPT
                    !.calls = @ + 1,
                    !.runner[r].pc = "start",
                    !.mailbox = Append(@, Message("observe",
                                                   r, bandit.runner[r].arm,
                                                   reward))]
    /\ UNCHANGED <<env_config, heap, game, cln, boards, nclone, last, elo,
                   mcts>>

\* the actor takes the next message from its mailbox
Start ==
    /\ bandit.mailbox # <<>>
    /\ may_start(bandit.running)
    /\ bandit' = [bandit EXCEPT !.mailbox = Tail(@),
                                !.running = Append(@, Head(bandit.mailbox))]
    /\ UNCHANGED <<env_config, heap, game, cln, boards, nclone, last, elo,
                   mcts>>

\* either method reads the weights to compute the distribution p
ReadWeights(j) ==
    /\ j \in 1..Len(bandit.running)
    /\ bandit.running[j].pc = "read"
    /\ bandit' = [bandit EXCEPT !.running[j].pc = "write",
                                !.running[j].seen = bandit.weights]
    /\ UNCHANGED <<env_config, heap, game, cln, boards, nclone, last, elo,
                   mcts>>

\* the running list without its j-th method
Finished(running, j) ==
    SubSeq(running, 1, j - 1) \o SubSeq(running, j + 1, Len(running))

\* select_arm returns an arm drawn from p; every p_i is positive
SelectArm(j, arm) ==
    /\ j \in 1..Len(bandit.running)
    /\ bandit.running[j].pc = "write"
    /\ bandit.running[j].op = "select_arm"
    /\ arm \in Arms
    /\ bandit' = [bandit EXCEPT
                    !.running = Finished(@, j),
                    !.log = Append(@, [bandit.running[j] EXCEPT !.arm = arm]),
                    !.runner[bandit.running[j].runner] =
                        [pc |-> "playing", arm |-> arm]]
    /\ UNCHANGED <<env_config, heap, game, cln, boards, nclone, last, elo,
                   mcts>>

\* observe stores the new weight of its arm
Observe(j) ==
    /\ j \in 1..Len(bandit.running)
    /\ bandit.running[j].pc = "write"
    /\ bandit.running[j].op = "observe"
    /\ LET m == bandit.running[j]
       IN  bandit' = [bandit EXCEPT
                        !.running = Finished(@, j),
                        !.log = Append(@, m),
                        !.weights[m.arm] =
                            times_factor(m.seen[m.arm], m.seen, m.reward)]
    /\ UNCHANGED <<env_config, heap, game, cln, boards, nclone, last, elo,
                   mcts>>

NextBandit ==
    \/ \E r \in Runners : CallSelect(r)
    \/ \E r \in Runners, reward \in Rewards : CallObserve(r, reward)
    \/ Start
    \/ \E j \in 1..MaxRunners : ReadWeights(j)
    \/ \E j \in 1..MaxRunners, arm \in Arms : SelectArm(j, arm)
    \/ \E j \in 1..MaxRunners : Observe(j)

SpecBandit == InitBandit /\ [][NextBandit]_vars

(***************************************************************************)
(* The playable grid, read off the bit-boards cell by cell.  Cell          *)
(* (column, row) is bit column * (board_height + 1) + row; row             *)
(* board_height of each column is the guard row.                           *)
(***************************************************************************)
H == env_config.board_height
W == env_config.board_width
K == env_config.win_length

Rows == 0..(H - 1)
Players == {0, 1}

CellBit(c, r) == c * (H + 1) + r

\* the set bits of a mask
BitRange == 0..(W * (H + 1) + MaxOverfill)
CellsOf(mask) == {i \in BitRange : Bit(mask, i) = 1}

Mask(h, e, p) == h[e.bit_board][p + 1]

\* player p owns cell (c, r) of engine e
Owns(e, p, c, r) == Bit(Mask(heap, e, p), CellBit(c, r)) = 1

\* stones standing in the playable rows of column c
StoneCount(e, c) ==
    Cardinality({r \in Rows : Owns(e, 0, c, r) \/ Owns(e, 1, c, r)})

\* vertical, horizontal and the two diagonals, as (column step, row step)
Directions == {<<0, 1>>, <<1, 0>>, <<1, 1>>, <<1, -1>>}

\* p owns win_length consecutive cells of the grid along one direction
HasRun(e, p) ==
    LET own == CellsOf(Mask(heap, e, p))
    IN  \E c \in Columns, r \in Rows, d \in Directions :
            \A i \in 0..(K - 1) :
                /\ c + i * d[1] \in Columns
                /\ r + i * d[2] \in Rows
                /\ CellBit(c + i * d[1], r + i * d[2]) \in own

\* p owns win_length cells that would be consecutive bits if a column's top
\* cell were followed by the next column's bottom cell
WrapRun(e, p) ==
    \E c \in Columns, j \in 1..(K - 1) :
        /\ c + 1 \in Columns
        /\ j <= H
        /\ K - j <= H
        /\ \A i \in 1..j : Owns(e, p, c, H - i)
        /\ \A i \in 0..(K - j - 1) : Owns(e, p, c + 1, i)

Winner(e, p) == is_winner(heap, env_config, e, p)

\* C1: in every state reached by legal moves and for each player p,
\* is_winner(p) is true exactly when p owns win_length consecutive cells of
\* the playable grid in a vertical, horizontal or diagonal direction; a run
\* that would continue from the top of one column into the bottom of the
\* next does not count.
C1_WinnerIffRun ==
    \A p \in Players : Winner(game, p) <=> HasRun(game, p)

\* a player owns a wrapping run and has not won
C1_Witness ==
    \E p \in Players : WrapRun(game, p) /\ ~Winner(game, p) /\ ~HasRun(game, p)

\* the call just made, seen from the step that made it
Called(op, obj, c) ==
    /\ last'.op = op
    /\ last'.obj = obj
    /\ last'.column = c

Raised == last'.exc # "none"

\* C2: move on a full column (its stone count equals board_height) fails
\* with an error and leaves the masks, the column heights and the side to
\* move unchanged.
C2_FullColumnMoveFails ==
    [][\A c \in Columns :
          (Called("move", "game", c) /\ heap[game.lowest_row][c + 1] = H)
              => (Raised /\ UNCHANGED <<heap, game>>)]_vars

\* C3: after legal moves get_moves() is the ascending list of the columns
\* whose stone count is below board_height when neither player has won, and
\* the empty list when a player has won; it never holds a full column.
C3_LegalMovesExact ==
    LET moves == get_moves(heap, env_config, game)
        won   == Winner(game, 0) \/ Winner(game, 1)
    IN  /\ won => moves = <<>>
        /\ ~won => Elems(moves) = {c \in Columns : StoneCount(game, c) < H}
        /\ \A i, j \in 1..Len(moves) : i < j => moves[i] < moves[j]
        /\ \A i \in 1..Len(moves) : StoneCount(game, moves[i]) < H

\* nobody has won, one column is full and left out, another is offered
C3_Witness ==
    /\ ~Winner(game, 0) /\ ~Winner(game, 1)
    /\ \E c \in Columns :
          /\ StoneCount(game, c) = H
          /\ c \notin Elems(get_moves(heap, env_config, game))
    /\ get_moves(heap, env_config, game) # <<>>

\* what move(c) does to engine e (e2 after the call) when column c is not full
MoveEffect(e, e2, c) ==
    LET mover == Flip(e.player)
        cell  == CellBit(c, StoneCount(e, c))
    IN  /\ cell \notin CellsOf(Mask(heap, e, 0)) \cup CellsOf(Mask(heap, e, 1))
        /\ CellsOf(Mask(heap', e2, mover))
              = CellsOf(Mask(heap, e, mover)) \cup {cell}
        /\ Mask(heap', e2, Flip(mover)) = Mask(heap, e, Flip(mover))
        /\ heap'[e2.lowest_row]
              = [heap[e.lowest_row] EXCEPT ![c + 1] = @ + 1]
        /\ heap'[e2.heights] = [heap[e.heights] EXCEPT ![c + 1] = @ + 1]
        /\ StoneCount(e, c) = heap[e.lowest_row][c + 1]
        /\ e2.player = mover
        /\ e2 = [e EXCEPT !.player = mover]
        /\ heap'[e2.dirs] = heap[e.dirs]
        /\ heap'[e2.top_row] = heap[e.top_row]
        /\ env_config' = env_config

\* C4: move(c) on a non-full column adds exactly the cell (c, stone count
\* of c) to the mask of the player whose turn it is (the flipped `player`),
\* adds one to column c's height only, flips the side to move, and leaves
\* the other mask, the other heights and the configuration alone.
C4_MoveEffect ==
    [][\A c \in Columns :
          (Called("move", "game", c) /\ StoneCount(game, c) < H)
              => MoveEffect(game, game', c)]_vars

\* a move has just put a stone on top of another one
C4_Witness ==
    /\ last.op = "move"
    /\ last.obj = "game"
    /\ heap[game.lowest_row][last.column + 1] >= 2

\* what a caller can observe of engine e in heap h
Observed(h, e) ==
    <<get_moves(h, env_config, e), h[e.bit_board], h[e.heights],
      h[e.lowest_row], e.player>>

\* C5: once a clone exists, a move applied to the clone changes nothing of
\* the original's legal moves, masks and heights, and a move applied to the
\* original changes nothing of the clone's.
C5_CloneIndependent ==
    [][/\ (last'.op = "move" /\ last'.obj = "cln")
            => Observed(heap', game') = Observed(heap, game)
       /\ (last'.op = "move" /\ last'.obj = "game" /\ cln # NoObj)
            => Observed(heap', cln') = Observed(heap, cln)]_vars

\* a clone taken in mid-game has been moved and differs from the original
C5_Witness ==
    /\ cln # NoObj
    /\ last.op = "move"
    /\ last.obj = "cln"
    /\ MovesMade(heap, game) >= 1
    /\ heap[cln.bit_board] # heap[game.bit_board]
    /\ heap[cln.lowest_row] # heap[game.lowest_row]

\* the clone holds what the original holds: it was just taken, or the same
\* moves were applied to both
SameContents(e1, e2) ==
    /\ heap[e1.bit_board] = heap[e2.bit_board]
    /\ heap[e1.heights] = heap[e2.heights]
    /\ heap[e1.lowest_row] = heap[e2.lowest_row]
    /\ heap[e1.top_row] = heap[e2.top_row]
    /\ e1.player = e2.player

Answers(e) ==
    <<is_winner(heap, env_config, e, 0), is_winner(heap, env_config, e, 1),
      get_moves(heap, env_config, e), is_draw(heap, env_config, e),
      is_game_over(heap, env_config, e),
      get_reward(heap, env_config, e, 0), get_reward(heap, env_config, e, 1)>>

\* C6: for every configuration, a clone answers is_winner, get_moves,
\* is_draw, is_game_over and get_reward as the original does, when it is
\* taken and after the same moves were applied to both.
C6_CloneIsExact ==
    (cln # NoObj /\ SameContents(game, cln)) => Answers(cln) = Answers(game)

\* C7: after moves taken from get_moves() the two players are never both
\* winners, and an engine without stones has no winner.
C7_NotBothWinners ==
    /\ ~(Winner(game, 0) /\ Winner(game, 1))
    /\ MovesMade(heap, game) = 0 => (~Winner(game, 0) /\ ~Winner(game, 1))

\* a player has won while the other has stones on the board
C7_Witness ==
    \E p \in Players :
        /\ Winner(game, p)
        /\ Mask(heap, game, Flip(p)) # 0
        /\ K >= 2

\* C8: after legal moves no cell belongs to both players.
C8_MasksDisjoint ==
    BitAnd(Mask(heap, game, 0), Mask(heap, game, 1)) = 0

\* both players have stones in the same column
C8_Witness ==
    \E c \in Columns, r1, r2 \in Rows :
        Owns(game, 0, c, r1) /\ Owns(game, 1, c, r2)

\* C9: a move or step submitted when the game is over (a player has won or
\* the board is drawn) is rejected with an error and the state does not
\* advance.
C9_TerminalMoveRejected ==
    [][(last'.op \in {"move", "step"} /\ last'.obj = "game"
          /\ is_game_over(heap, env_config, game))
         => (Raised /\ UNCHANGED <<heap, game, boards>>)]_vars

\* the outcome of the game for player p, read off the grid
BoardFull(e) == \A c \in Columns : StoneCount(e, c) = H
Terminal(e) == HasRun(e, 0) \/ HasRun(e, 1) \/ BoardFull(e)

ScoreByOutcome(e, p) ==
    LET r == get_reward(heap, env_config, e, p)
    IN  /\ HasRun(e, p) => r = env_config.reward_win
        /\ HasRun(e, Flip(p)) => r = env_config.reward_lose
        /\ (BoardFull(e) /\ ~HasRun(e, 0) /\ ~HasRun(e, 1))
              => r = env_config.reward_draw
        /\ ~Terminal(e) => r = env_config.reward_step

\* C10 as stated: get_reward(p) is reward_win if p has won, reward_lose if
\* the opponent has won, reward_draw on a draw, and it is reward_step
\* exactly when the game is not terminal.
C10_StepRewardOnlyWhenRunning ==
    \A p \in Players :
        /\ ScoreByOutcome(game, p)
        /\ get_reward(heap, env_config, game, p) = env_config.reward_step
              <=> ~Terminal(game)

\* C10 amended: get_reward(p) is reward_win if p has won, reward_lose if
\* the opponent has won, reward_draw on a draw and reward_step when the
\* game is not terminal; a terminal state returns the value of reward_step
\* only if the reward configured for its outcome equals reward_step.
C10_ScoreByOutcome ==
    \A p \in Players :
        /\ ScoreByOutcome(game, p)
        /\ (Terminal(game)
             /\ get_reward(heap, env_config, game, p) = env_config.reward_step)
            => \/ HasRun(game, p)
                  /\ env_config.reward_win = env_config.reward_step
               \/ HasRun(game, Flip(p))
                  /\ env_config.reward_lose = env_config.reward_step
               \/ BoardFull(game)
                  /\ env_config.reward_draw = env_config.reward_step

\* the game was lost by p and p is paid the lose reward, which the default
\* configuration sets to the value of the step reward
C10_Witness ==
    \E p \in Players :
        /\ HasRun(game, Flip(p))
        /\ get_reward(heap, env_config, game, p) = env_config.reward_lose
        /\ env_config.reward_lose = env_config.reward_step

\* C20: Connect4Env.step with an action that targets a full column (its
\* stone count equals board_height) raises ValueError before anything is
\* changed: the masks, the heights, the side to move and both observation
\* boards are what they were before the call.
C20_StepFullColumnRejected ==
    [][\A c \in Columns :
          (Called("step", "game", c) /\ StoneCount(game, c) = H)
              => /\ last'.exc = "ValueError"
                 /\ UNCHANGED <<heap, game, boards>>]_vars

\* after reset, a step on a full column has just been refused while another
\* column is still free
C20_Witness ==
    /\ boards # <<>>
    /\ last.op = "step"
    /\ last.exc = "ValueError"
    /\ StoneCount(game, last.column) = H
    /\ \E c \in Columns : StoneCount(game, c) < H
\* the change a step makes to the rating of agent a
RatingChange(a) == FSub(elo'.ratings[a], elo.ratings[a])

\* rate(player_a, player_b, winner) has just returned normally
Rated(player_a, player_b, winner) ==
    /\ last'.op = "rate"
    /\ last'.exc = "none"
    /\ last'.player_a = player_a
    /\ last'.player_b = player_b
    /\ last'.winner = winner

\* C16: the two rating changes of one rate call add up to zero, for any two
\* agents and each of the three outcomes, and no other rating moves; with
\* k = 32 and both agents at 1200 a win of A raises A by exactly 16 and
\* lowers B by exactly 16.
C16_ZeroSum ==
    [][\A a, b \in Agents, w \in Winners :
          Rated(a, b, w) =>
             /\ a # b => FAdd(RatingChange(a), RatingChange(b)) = FInt(0)
             /\ a = b => RatingChange(a) = FInt(0)
             /\ \A c \in DOMAIN elo.ratings \ {a, b} : RatingChange(c) = FInt(0)
             /\ DOMAIN elo'.ratings = DOMAIN elo.ratings
             /\ (/\ a # b
                 /\ w = a
                 /\ elo.k = 32
                 /\ elo.ratings[a] = FInt(1200)
                 /\ elo.ratings[b] = FInt(1200))
                   => /\ RatingChange(a) = FInt(16)
                      /\ RatingChange(b) = FInt(-16)]_vars

\* a decided game between two agents whose ratings differed has been rated:
\* the winner's new rating is not a whole number
C16_Witness ==
    /\ last.op = "rate"
    /\ last.exc = "none"
    /\ last.winner = last.player_a
    /\ last.player_a # last.player_b
    /\ elo.ratings[last.player_a][2] > 1
    /\ elo.ratings[last.player_b][2] > 1

\* C17: add_agent seeds an absent agent at the default rating and leaves
\* the others alone, and is idempotent for an agent already in the table:
\* a rating changed by earlier rate calls stays as it is.
C17_RegisterIdempotent ==
    [][last'.op = "add_agent" =>
          LET a == last'.player_a
          IN  /\ a \notin DOMAIN elo.ratings =>
                   /\ elo'.ratings[a] = elo.start_value
                   /\ \A c \in DOMAIN elo.ratings :
                         elo'.ratings[c] = elo.ratings[c]
              /\ a \in DOMAIN elo.ratings => elo'.ratings = elo.ratings]_vars

\* C18: rate for two agents of the table with a winner that is neither of
\* them nor 'draw' raises the error for an unknown outcome, and every rating
\* is the same after the failed call as before it.
C18_UnknownOutcomeRejected ==
    [][\A a, b \in DOMAIN elo.ratings, w \in Winners :
          (/\ last'.op = "rate"
           /\ last'.player_a = a
           /\ last'.player_b = b
           /\ last'.winner = w
           /\ w \notin {a, b, "draw"})
             => /\ last'.exc = "ValueError"
                /\ elo'.ratings = elo.ratings]_vars

\* a third agent of the table was named as the winner, after a rated game
\* had moved the two ratings apart
C18_Witness ==
    /\ last.op = "rate"
    /\ last.exc = "ValueError"
    /\ last.winner \in DOMAIN elo.ratings
    /\ last.player_a # last.player_b
    /\ elo.ratings[last.player_a] # elo.ratings[last.player_b]
\* the search has returned a move: its result and the children of its root
Returned == mcts.pc = "done" /\ mcts.returned[Len(mcts.returned)].exc = "none"
Answer == mcts.returned[Len(mcts.returned)]
RootChildren == mcts.nodes[Root].children
Child(j) == mcts.nodes[RootChildren[j]]

\* wins / visits of x is at most that of y; visits are positive
RatioAtMost(x, y) == x.wins * y.visits <= y.wins * x.visits

\* C11: mcts returns the move of the root child with the highest
\* wins / visits, no exploration term added; when several root children tie
\* for the highest ratio, the one inserted latest into the root's child list
\* is returned.
C11_BestRatioLatestOnTie ==
    Returned =>
        \E j \in 1..Len(RootChildren) :
            /\ Answer.move = Child(j).move
            /\ \A m \in 1..Len(RootChildren) :
                  /\ Child(m).visits > 0
                  /\ RatioAtMost(Child(m), Child(j))
                  /\ RatioAtMost(Child(j), Child(m)) => m <= j

\* two root children with different visit counts tie for the highest ratio
\* and the later of the two was returned
C11_Witness ==
    /\ Returned
    /\ \E j, m \in 1..Len(RootChildren) :
          /\ m < j
          /\ Answer.move = Child(j).move
          /\ Child(m).visits # Child(j).visits
          /\ RatioAtMost(Child(m), Child(j))
          /\ RatioAtMost(Child(j), Child(m))
\* the earlier of two root children has the higher ratio and was returned
C11_WitnessNoTie ==
    /\ Returned
    /\ \E j, m \in 1..Len(RootChildren) :
          /\ j < m
          /\ Answer.move = Child(j).move
          /\ ~RatioAtMost(Child(j), Child(m))
\* rollouts carried through to the end: each one updates the root once
Rounds == mcts.nodes[Root].visits

\* the time since the search began, as read by the step being taken
Elapsed == mcts'.clock - mcts.start

\* C12: for max_rollouts > 0 and a state that is not terminal the search
\* performs n complete rollouts with 1 <= n <= max_rollouts and reports
\* exactly n; it leaves the loop only at the end of a rollout, at the first
\* one where the elapsed time exceeds the timeout or with the last of
\* max_rollouts, and not before.
C12_CompleteRounds ==
    /\ [](Returned => /\ 1 <= Rounds
                      /\ Rounds <= mcts.max_rollouts
                      /\ Answer.num_rollouts = Rounds)
    /\ [][/\ (mcts.pc # "final" /\ mcts'.pc = "final")
               => /\ last.op = "backpropagate"
                  /\ last'.op = "clock"
                  /\ Elapsed > mcts.rollouts_timeout
                        \/ Rounds = mcts.max_rollouts
          /\ (last'.op = "clock" /\ Elapsed > mcts.rollouts_timeout)
               => mcts'.pc = "final"
          /\ (/\ last'.op = "clock"
              /\ Elapsed <= mcts.rollouts_timeout
              /\ Rounds < mcts.max_rollouts)
               => mcts'.pc = "round" /\ mcts'.nodes = mcts.nodes]_vars

\* the search was stopped by the clock after its second rollout, with
\* rollouts to spare
C12_Witness ==
    /\ Returned
    /\ Answer.num_rollouts = 2
    /\ mcts.max_rollouts > 2
    /\ mcts.clock - mcts.start = mcts.rollouts_timeout + 1
\* two calls with the same seed, state and max_rollouts have both returned
BothReturned ==
    /\ Returned
    /\ Len(mcts.returned) = 2
    /\ mcts.returned[1].exc = "none"

\* C13: with the random generator seeded alike, two runs of mcts on the
\* same state with the same max_rollouts return the same move.
C13_SameSeedSameMove ==
    BothReturned => mcts.returned[1].move = mcts.returned[2].move

\* C13, amended: with the random generator seeded alike, two runs of mcts
\* on the same state with the same max_rollouts that carry out the same
\* number of rollouts return the same move.
C13_SameSeedSameRounds ==
    (BothReturned
        /\ mcts.returned[1].num_rollouts = mcts.returned[2].num_rollouts)
            => mcts.returned[1].move = mcts.returned[2].move

\* two seeded runs of three rollouts each have returned, not the move that
\* was tried first
C13_Witness ==
    /\ BothReturned
    /\ mcts.returned[1].num_rollouts = 3
    /\ mcts.returned[2].num_rollouts = 3
    /\ Len(RootChildren) >= 2
    /\ mcts.returned[2].move # Child(1).move
\* what the caller holds: the lists of its game and the side to move
CallerState(h, e) ==
    <<h[e.bit_board], h[e.dirs], h[e.heights], h[e.lowest_row], h[e.top_row],
      e.player>>

\* C14: mcts never mutates the state it is called with: no step of the
\* search changes the masks, the column heights or the side to move of the
\* caller's game, so after the search returns they are what they were
\* before the call; every rollout works on a clone.
C14_CallerStateUntouched ==
    [][last'.obj = "mcts"
          => /\ game' = game
             /\ CallerState(heap', game') = CallerState(heap, game)
             /\ env_config' = env_config]_vars

\* a search called in mid-game has returned after rollouts that moved
\* stones on its own clone
C14_Witness ==
    /\ Returned
    /\ MovesMade(heap, game) >= 1
    /\ Rounds >= 2
    /\ MovesMade(heap, mcts.state) > MovesMade(heap, game) + 1

\* C15: for every input state that is not terminal and max_rollouts > 0,
\* mcts returns a move that is legal in the input state, a column whose
\* stone count is below board_height; the root has at least one child when
\* the final choice is made.
C15_ReturnsLegalMove ==
    (/\ mcts.pc = "done"
     /\ mcts.max_rollouts > 0
     /\ ~Terminal(game))
        => /\ Answer.exc = "none"
           /\ Len(RootChildren) >= 1
           /\ Answer.move \in Columns
           /\ StoneCount(game, Answer.move) < H
           /\ Answer.move \in Elems(get_moves(heap, env_config, game))

\* the search has returned a move for a state that has a full column
C15_Witness ==
    /\ Returned
    /\ \E c \in Columns : StoneCount(game, c) = H
    /\ StoneCount(game, Answer.move) < H
    /\ Rounds >= 2
\* the weights after the first k completed calls, had they been run one
\* after the other in the order of their completion
RECURSIVE SerialWeights(_)
SerialWeights(k) ==
    IF k = 0 THEN [i \in Arms |-> <<>>]
    ELSE LET w == SerialWeights(k - 1)
             m == bandit.log[k]
         IN  IF m.op = "observe" /\ m.reward # 0
             THEN [w EXCEPT ![m.arm] =
                      Append(@, [reward |-> m.reward, seen |-> w])]
             ELSE w

\* C19: with several runners calling select_arm and observe on one bandit,
\* the calls take effect in a serial order, the order of their completion:
\* every draw and every update has computed its distribution from the
\* weights exactly as the calls before it left them, never from a vector
\* that an update was part-way through, and the weights are those the
\* serial run leaves.
C19_CallsSerialized ==
    /\ \A k \in 1..Len(bandit.log) :
          bandit.log[k].seen = SerialWeights(k - 1)
    /\ \A j \in 1..Len(bandit.running) :
          bandit.running[j].pc = "write"
              => bandit.running[j].seen = SerialWeights(Len(bandit.log))
    /\ bandit.weights = SerialWeights(Len(bandit.log))

\* an update has read the weights and not yet written while another
\* runner's call waits in the mailbox, after a rewarded update and a draw
\* that saw its effect
C19_Witness ==
    /\ Len(bandit.running) = 1
    /\ bandit.running[1].pc = "write"
    /\ bandit.running[1].op = "observe"
    /\ bandit.mailbox # <<>>
    /\ bandit.mailbox[1].runner # bandit.running[1].runner
    /\ \E k \in 1..Len(bandit.log) :
          /\ bandit.log[k].op = "select_arm"
          /\ bandit.log[k].seen # [i \in Arms |-> <<>>]
\* the step is the backpropagation of a rollout that ended in node n
Backpropagated(n) == last'.op = "backpropagate" /\ mcts.node = n

\* what the rollout's final state pays player p
FinalReward(p) == get_reward(heap, env_config, mcts.state, p)

NodeIds == 1..Len(mcts.nodes)

Divisors ==
    IF mcts.pc = "round"
    THEN {<<n, c>> \in NodeIds \X NodeIds :
             /\ mcts.nodes[n].untried_moves = <<>>
             /\ c \in Elems(mcts.nodes[n].children)}
    ELSE IF mcts.pc = "final"
    THEN {<<n, c>> \in {Root} \X NodeIds : c \in Elems(mcts.nodes[Root].children)}
    ELSE {}

\* C22: whenever the statistics of a node are used in a ratio, in the uct
\* value of a selection or in the final choice among the children of the
\* root, the node has been visited at least once and so has its parent; no
\* step of a search and no result of one, a search stopped early by the
\* clock included, is a division by zero.
C22_NoDivisionByZero ==
    /\ \A d \in Divisors : /\ mcts.nodes[d[2]].visits >= 1
                           /\ mcts.nodes[d[1]].visits >= 1
    /\ last.exc # "ZeroDivisionError"
    /\ \A j \in 1..Len(mcts.returned) :
          mcts.returned[j].exc # "ZeroDivisionError"

\* a search of three rollouts was stopped by the clock after two and has
\* returned: its second rollout selected the only child of the root by its
\* uct value, and the final choice divided by that child's two visits
C22_Witness ==
    /\ last.op = "return"
    /\ mcts.max_rollouts = 3
    /\ mcts.returned[Len(mcts.returned)].num_rollouts = 2
    /\ mcts.nodes[Root].untried_moves = <<>>
    /\ Len(mcts.nodes[Root].children) = 1
    /\ mcts.nodes[mcts.nodes[Root].children[1]].visits = 2
\* the step belongs to the search that is under way
SameSearch == mcts.pc \notin {"idle", "done"} /\ last'.op # "mcts"

\* none of the rewards the engine was built with is negative
NoNegativeReward ==
    /\ env_config.reward_win >= 0
    /\ env_config.reward_draw >= 0
    /\ env_config.reward_lose >= 0
    /\ env_config.reward_step >= 0

\* C23: during one search neither visits nor wins of any node ever
\* decreases, whatever rewards the engine was constructed with.
C23_StatisticsNeverDecrease ==
    [][SameSearch =>
          \A j \in NodeIds :
             /\ mcts'.nodes[j].visits >= mcts.nodes[j].visits
             /\ mcts'.nodes[j].wins >= mcts.nodes[j].wins]_vars

\* C23, amended: during one search the visits of a node never decrease,
\* and its wins never decrease when none of the engine's rewards is
\* negative; each step leaves both alone or counts one visit and adds one
\* of the four configured rewards.
C23_NeverDecreaseUnlessNegativeReward ==
    [][SameSearch =>
          \A j \in NodeIds :
             /\ mcts'.nodes[j].visits >= mcts.nodes[j].visits
             /\ NoNegativeReward => mcts'.nodes[j].wins >= mcts.nodes[j].wins
             /\ \/ /\ mcts'.nodes[j].visits = mcts.nodes[j].visits
                   /\ mcts'.nodes[j].wins = mcts.nodes[j].wins
                \/ /\ mcts'.nodes[j].visits = mcts.nodes[j].visits + 1
                   /\ mcts'.nodes[j].wins - mcts.nodes[j].wins \in
                         {env_config.reward_win, env_config.reward_draw,
                          env_config.reward_lose, env_config.reward_step}]_vars

\* with rewards none of which is negative a node has been updated in three
\* rounds, and its wins have grown in at least one of them
C23_Witness ==
    /\ NoNegativeReward
    /\ last.op = "backpropagate"
    /\ \E j \in NodeIds : /\ mcts.nodes[j].visits = 3
                          /\ mcts.nodes[j].wins \in 1..5
\* the lists of the state stored in node n, and the object that holds them
StoredLists(n) ==
    LET st == mcts.nodes[n].state
    IN  (NodeAddr :> st.bit_board) @@ ((NodeAddr + 1) :> st.dirs)
        @@ ((NodeAddr + 2) :> st.heights) @@ ((NodeAddr + 3) :> st.lowest_row)
        @@ ((NodeAddr + 4) :> st.top_row)

StoredObj(n) == [Connect4Obj(NodeAddr) EXCEPT !.player = mcts.nodes[n].state.player]

\* the moves of the children of node n, in the order of the children
ChildMoves(n) ==
    [j \in 1..Len(mcts.nodes[n].children) |->
        mcts.nodes[mcts.nodes[n].children[j]].move]

NoDuplicates(s) == Cardinality(Elems(s)) = Len(s)

\* C24: at every point of a search and for every node, the untried moves
\* and the moves of the children are disjoint, neither holds a move twice,
\* and together they are the moves get_moves gives for the state stored in
\* the node; untried moves are only ever removed, children only ever added,
\* and a descent selects a child only of a node without untried moves.
C24_UntriedAndChildrenPartitionMoves ==
    /\ [](\A n \in NodeIds :
            /\ NoDuplicates(mcts.nodes[n].untried_moves \o ChildMoves(n))
            /\ Elems(mcts.nodes[n].untried_moves) \cup Elems(ChildMoves(n))
                  = Elems(get_moves(StoredLists(n), env_config, StoredObj(n))))
    /\ [][SameSearch =>
            /\ \A n \in NodeIds :
                  /\ Elems(mcts'.nodes[n].untried_moves)
                        \subseteq Elems(mcts.nodes[n].untried_moves)
                  /\ Elems(mcts.nodes[n].children)
                        \subseteq Elems(mcts'.nodes[n].children)
            /\ (last'.op = "select" /\ last'.exc = "none") =>
                  \A n \in Ancestors(mcts.nodes, mcts'.node) \ {mcts'.node} :
                     mcts.nodes[n].untried_moves = <<>>]_vars
\* a rollout has a working state: between the descent and the clock
Playing == mcts.pc \in {"expand", "rollout"}

\* state e has room for further moves only below board_height *
\* board_width stones, and is over when get_moves offers nothing
Bounded(e) ==
    /\ MovesMade(heap, e) <= H * W
    /\ MovesMade(heap, e) = H * W => get_moves(heap, env_config, e) = <<>>
    /\ get_moves(heap, env_config, e) = <<>>
          => is_game_over(heap, env_config, e)

\* C25: a playout that keeps applying a move taken from get_moves ends:
\* every such move adds one stone, no state holds more than board_height *
\* board_width stones, and get_moves is empty at the latest when it holds
\* that many; the rollout loop of a round therefore stops after at most
\* that many moves in total, in a state for which is_game_over is true.
C25_PlayoutsEnd ==
    /\ [](Bounded(game) /\ (Playing => Bounded(mcts.state)))
    /\ [][/\ last'.op = "rollout"
             => /\ last'.column \in
                      Elems(get_moves(heap, env_config, mcts.state))
                /\ MovesMade(heap', mcts'.state)
                      = MovesMade(heap, mcts.state) + 1
          /\ last'.op = "backpropagate"
             => is_game_over(heap, env_config, mcts.state)]_vars

\* the first rollout of a search on an empty board of four cells has filled
\* the board and stopped
C25_Witness ==
    /\ last.op = "backpropagate"
    /\ H * W = 4
    /\ MovesMade(heap, game) = 0
    /\ MovesMade(heap, mcts.state) = 4
    /\ mcts.nodes[Root].visits = 1
\* the number of stones the engine has counted in column c, and the index
\* of the bit its next stone goes to
Count(c) == heap[game.lowest_row][c + 1]
NextFree(c) == heap[game.heights][c + 1]

\* C26: in every state reached by legal moves and for every column c,
\* lowest_row[c] lies in 0..board_height and heights[c] is c *
\* (board_height + 1) + lowest_row[c]; so is_valid_move(c) is true exactly
\* when lowest_row[c] < board_height, it agrees with the action mask and,
\* while nobody has won, with get_moves, and no bit of the guard row is set
\* in either bit board.
C26_ColumnBookkeeping ==
    \A c \in Columns :
       /\ Count(c) \in 0..H
       /\ NextFree(c) = c * (H + 1) + Count(c)
       /\ is_valid_move(heap, game, c) <=> Count(c) < H
       /\ is_valid_move(heap, game, c)
             <=> get_action_mask(heap, env_config, game)[c + 1] = 1
       /\ (~is_winner(heap, env_config, game, 0)
             /\ ~is_winner(heap, env_config, game, 1))
             => (is_valid_move(heap, game, c)
                    <=> c \in Elems(get_moves(heap, env_config, game)))
       /\ \A p \in Players : Bit(Mask(heap, game, p), CellBit(c, H)) = 0

\* on a board at least two rows high and two columns wide a move has just
\* filled a column while another column still has room
C26_Witness ==
    /\ last.op = "move"
    /\ H >= 2
    /\ Count(last.column) = H
    /\ ~is_valid_move(heap, game, last.column)
    /\ \E c \in Columns : Count(c) \in 1..(H - 1) /\ is_valid_move(heap, game, c)
====
